---- MODULE Spec2Model ----
(***************************************************************************)
(* A model of pygeoutils.arcgis2geojson: the type dispatcher (convert) and  *)
(* the ring pipeline (_rings2geojson, _get_outer_rings,                     *)
(* _get_uncontained_holes) of src/pygeoutils/pygeoutils.py.                 *)
(*                                                                         *)
(* Coordinates are integer pairs <<x, y>>, a ring is a sequence of          *)
(* coordinates, a Python list is a sequence and a Python dict is a function *)
(* whose domain is a set of strings. The caller passes the object as a dict  *)
(* (a str is parsed to one first, line 179-180).                            *)
(***************************************************************************)
EXTENDS Integers, Sequences, FiniteSets, Bags, TLC

VARIABLES
    pc,                 \* where the call of arcgis2geojson stands
    arcgis,             \* the caller's ArcGIS object (rings are mutated in place)
    id_attr,            \* the caller's id_attr argument
    outer_rings,        \* _rings2geojson: the groups, each [exterior, hole, ...]
    holes,              \* _get_uncontained_holes: the stack of hole candidates
    uncontained_holes,  \* the stack of holes the containment pass deferred
    geojson,            \* the value arcgis2geojson returned
    arcgis0             \* history: the caller's object when the call was made

vars == <<pc, arcgis, id_attr, outer_rings, holes, uncontained_holes, geojson, arcgis0>>

\* The longest rings array the ring pipeline is run on.
MaxRings == 3

-----------------------------------------------------------------------------
(* Python values *)

None == [py |-> "None"]
Num(n) == [py |-> "num", v |-> n]
Str(s) == [py |-> "str", v |-> s]
Other == [py |-> "list"]

EmptyDict == <<>>

Put(d, k, val) == [x \in (DOMAIN d) \cup {k} |-> IF x = k THEN val ELSE d[x]]

\* isinstance(v, numbers.Number)
IsNumber(val) == val.py = "num"

\* isinstance(v, (numbers.Number, str))
IsNumberOrStr(val) == val.py \in {"num", "str"}

\* not v, for v a dict or None
Falsy(val) == IF DOMAIN val = {} THEN TRUE ELSE val = None

\* ring[::-1]
Reverse(s) == [i \in 1..Len(s) |-> s[Len(s) + 1 - i]]

Last(s) == s[Len(s)]

Range(s) == {s[i] : i \in DOMAIN s}

\* list.pop() leaves this
Front(s) == SubSeq(s, 1, Len(s) - 1)

Abs(n) == IF n < 0 THEN -n ELSE n

-----------------------------------------------------------------------------
(* numpy and shapely *)

\* np.isclose(a, b): |a - b| <= atol + rtol * |b|, atol = 1e-8, rtol = 1e-5,
\* both sides scaled by 10^8
IsClose(a, b) == 100000000 * Abs(a - b) <= 1 + 1000 * Abs(b)

\* np.all(np.isclose(p, q)) on two coordinates
AllClose(p, q) == IsClose(p[1], q[1]) /\ IsClose(p[2], q[2])

Cross(o, a, b) == (a[1] - o[1]) * (b[2] - o[2]) - (a[2] - o[2]) * (b[1] - o[1])

Min2(a, b) == IF a < b THEN a ELSE b
Max2(a, b) == IF a < b THEN b ELSE a

\* p, known collinear with a and b, lies on the segment a-b
InBox(a, b, p) ==
    /\ Min2(a[1], b[1]) <= p[1] /\ p[1] <= Max2(a[1], b[1])
    /\ Min2(a[2], b[2]) <= p[2] /\ p[2] <= Max2(a[2], b[2])

\* the point p lies on the segment a-b
OnSegment(a, b, p) == Cross(a, b, p) = 0 /\ InBox(a, b, p)

\* the segments p1-p2 and q1-q2 share a point
SegIntersects(p1, p2, q1, q2) ==
    LET d1 == Cross(q1, q2, p1)
        d2 == Cross(q1, q2, p2)
        d3 == Cross(p1, p2, q1)
        d4 == Cross(p1, p2, q2)
    IN  \/ /\ (d1 > 0 /\ d2 < 0) \/ (d1 < 0 /\ d2 > 0)
           /\ (d3 > 0 /\ d4 < 0) \/ (d3 < 0 /\ d4 > 0)
        \/ OnSegment(q1, q2, p1)
        \/ OnSegment(q1, q2, p2)
        \/ OnSegment(p1, p2, q1)
        \/ OnSegment(p1, p2, q2)

\* LineString(l1).intersects(LineString(l2))
LineIntersects(l1, l2) ==
    \E i \in 1..(Len(l1) - 1) : \E j \in 1..(Len(l2) - 1) :
        SegIntersects(l1[i], l1[i + 1], l2[j], l2[j + 1])

\* LineString(l1).contains(Point(p)): p lies in the interior of the line, that is
\* on the line and not on its boundary (the two end points of a line that is not
\* closed; a closed line has no boundary)
LineContains(l1, p) ==
    /\ \E i \in 1..(Len(l1) - 1) : OnSegment(l1[i], l1[i + 1], p)
    /\ l1[1] # Last(l1) => (p # l1[1] /\ p # Last(l1))

-----------------------------------------------------------------------------
(* The ring classifier: _get_outer_rings *)

\* line 223-224: close the ring in place when its end points differ
CloseRing(ring) == IF ~AllClose(ring[1], Last(ring)) THEN Append(ring, ring[1]) ELSE ring

\* line 226: a closed ring of fewer than 4 coordinates is skipped
IsDegenerate(ring) == Len(ring) < 4

\* line 229: the sum of (x2 - x1) * (y2 + y1) over the consecutive pairs
RECURSIVE SumEdges(_, _)
SumEdges(ring, i) ==
    IF i >= Len(ring) THEN 0
    ELSE (ring[i + 1][1] - ring[i][1]) * (ring[i + 1][2] + ring[i][2]) + SumEdges(ring, i + 1)

SignedSum(ring) == SumEdges(ring, 1)

\* line 231: the clock-wise check
IsOuter(ring) == SignedSum(ring) >= 0

\* OuterGroup without the reversal
OuterGroupAsListed(ring) == <<ring>>

\* line 232-234: an exterior candidate is stored reversed, as a singleton group
OuterGroup(ring) == <<Reverse(ring)>>

\* line 236: a hole candidate is stored reversed
HoleRing(ring) == Reverse(ring)

\* The for loop from ring i on. ring[0] of a ring with no coordinates raises
\* IndexError, and the rings closed before it stay closed in the caller's list.
RECURSIVE OuterRingsFrom(_, _, _, _)
OuterRingsFrom(rings, i, outer, hs) ==
    IF i > Len(rings)
    THEN [raised |-> FALSE, rings |-> rings, outer_rings |-> outer, holes |-> hs]
    ELSE IF Len(rings[i]) = 0
    THEN [raised |-> TRUE, rings |-> rings, outer_rings |-> outer, holes |-> hs]
    ELSE LET ring == CloseRing(rings[i])
             closed == [rings EXCEPT ![i] = ring]
         IN  IF IsDegenerate(ring) THEN OuterRingsFrom(closed, i + 1, outer, hs)
             ELSE IF IsOuter(ring)
             THEN OuterRingsFrom(closed, i + 1, Append(outer, OuterGroup(ring)), hs)
             ELSE OuterRingsFrom(closed, i + 1, outer, Append(hs, HoleRing(ring)))

GetOuterRings(rings) == OuterRingsFrom(rings, 1, <<>>, <<>>)

-----------------------------------------------------------------------------
(* The hole assigner: _get_uncontained_holes and the loop of _rings2geojson *)

\* ContainsHole without the intersects test
ContainsHoleOnLine(outer_ring, hole) == LineContains(outer_ring, hole[1])

\* line 256-260: the test of the containment pass, on the exterior's line
ContainsHole(outer_ring, hole) ==
    LET intersects == LineIntersects(outer_ring, hole)
        contains == LineContains(outer_ring, hole[1])
    IN  ~intersects /\ contains

\* line 253-265: the scan from group x down to the first; the index of the group
\* the hole goes to, 0 when the scan ends without one
RECURSIVE ScanContains(_, _, _)
ScanContains(outer, hole, x) ==
    IF x < 1 THEN 0
    ELSE IF ContainsHole(outer[x][1], hole) THEN x
    ELSE ScanContains(outer, hole, x - 1)

\* ContainIteration reading the top of the stack without popping it
ContainIterationPeek(outer, hs, unc) ==
    LET hole == Last(hs)
        x == ScanContains(outer, hole, Len(outer))
    IN  IF x > 0
        THEN [outer_rings |-> [outer EXCEPT ![x] = Append(@, hole)],
              holes |-> hs, uncontained_holes |-> unc]
        ELSE [outer_rings |-> outer,
              holes |-> hs, uncontained_holes |-> Append(unc, hole)]

\* line 247-270: one iteration of the while loop
ContainIteration(outer, hs, unc) ==
    LET hole == Last(hs)
        x == ScanContains(outer, hole, Len(outer))
    IN  IF x > 0
        THEN [outer_rings |-> [outer EXCEPT ![x] = Append(@, hole)],
              holes |-> Front(hs), uncontained_holes |-> unc]
        ELSE [outer_rings |-> outer,
              holes |-> Front(hs), uncontained_holes |-> Append(unc, hole)]

RECURSIVE ContainLoop(_, _, _)
ContainLoop(outer, hs, unc) ==
    IF hs = <<>> THEN [outer_rings |-> outer, holes |-> hs, uncontained_holes |-> unc]
    ELSE LET s == ContainIteration(outer, hs, unc)
         IN  ContainLoop(s.outer_rings, s.holes, s.uncontained_holes)

GetUncontainedHoles(outer, hs) == ContainLoop(outer, hs, <<>>)

\* ScanIntersects from the first group up to group x
ScanIntersectsFromFirst(outer, hole, x) ==
    LET hit == {y \in 1..x : LineIntersects(outer[y][1], hole)}
    IN  IF hit = {} THEN 0 ELSE CHOOSE y \in hit : \A z \in hit : y <= z

\* line 197-207: the scan of the intersection pass
RECURSIVE ScanIntersects(_, _, _)
ScanIntersects(outer, hole, x) ==
    IF x < 1 THEN 0
    ELSE IF LineIntersects(outer[x][1], hole) THEN x
    ELSE ScanIntersects(outer, hole, x - 1)

\* OrphanGroup without the reversal
OrphanGroupAsStored(hole) == <<hole>>

\* line 210: the group an unmatched hole becomes
OrphanGroup(hole) == <<Reverse(hole)>>

\* PlaceHole without the test of line 209: a matched hole is promoted as well
PlaceHoleAndPromote(outer, hole, x) ==
    IF x > 0 THEN Append([outer EXCEPT ![x] = Append(@, hole)], <<Reverse(hole)>>)
    ELSE Append(outer, <<Reverse(hole)>>)

\* line 204 and 210: what the iteration does with the hole, given the scan's result
PlaceHole(outer, hole, x) ==
    IF x > 0 THEN [outer EXCEPT ![x] = Append(@, hole)]
    ELSE Append(outer, OrphanGroup(hole))

\* IntersectIteration taking the hole from the bottom of the stack
IntersectIterationFromBottom(outer, unc) ==
    LET hole == Head(unc)
        x == ScanIntersects(outer, hole, Len(outer))
    IN  [outer_rings |-> PlaceHole(outer, hole, x), uncontained_holes |-> Tail(unc)]

\* line 191-210: one iteration of the while loop
IntersectIteration(outer, unc) ==
    LET hole == Last(unc)
        x == ScanIntersects(outer, hole, Len(outer))
    IN  [outer_rings |-> PlaceHole(outer, hole, x), uncontained_holes |-> Front(unc)]

RECURSIVE IntersectLoop(_, _)
IntersectLoop(outer, unc) ==
    IF unc = <<>> THEN outer
    ELSE LET s == IntersectIteration(outer, unc)
         IN  IntersectLoop(s.outer_rings, s.uncontained_holes)

\* Assemble without the case of one group
AssembleMulti(outer) == [type |-> "MultiPolygon", coordinates |-> outer]

\* line 212-215: the geometry assembler
Assemble(outer) ==
    IF Len(outer) = 1 THEN [type |-> "Polygon", coordinates |-> outer[1]]
    ELSE [type |-> "MultiPolygon", coordinates |-> outer]

\* _rings2geojson as a whole: what it returns, or that it raised, and the caller's
\* rings after it
Rings2GeoJSON(rings) ==
    LET r == GetOuterRings(rings)
    IN  IF r.raised THEN [raised |-> TRUE, rings |-> r.rings, geojson |-> None]
        ELSE LET u == GetUncontainedHoles(r.outer_rings, r.holes)
             IN  [raised |-> FALSE, rings |-> r.rings,
                  geojson |-> Assemble(IntersectLoop(u.outer_rings, u.uncontained_holes))]

-----------------------------------------------------------------------------
(* The rings the pipeline is run on *)

\* clockwise square (exterior candidate), closed
RingB == <<<<0, 0>>, <<0, 4>>, <<4, 4>>, <<4, 0>>, <<0, 0>>>>
\* counter-clockwise triangles strictly inside RingB (hole candidates)
RingH1 == <<<<1, 1>>, <<2, 1>>, <<1, 2>>, <<1, 1>>>>
RingH2 == <<<<2, 2>>, <<3, 2>>, <<2, 3>>>>
\* counter-clockwise triangle across the boundary of RingB, not closed
RingX == <<<<3, 3>>, <<5, 3>>, <<3, 5>>>>
\* counter-clockwise triangle that meets no other ring but RingP
RingO == <<<<6, 0>>, <<7, 0>>, <<6, 1>>, <<6, 0>>>>
\* counter-clockwise triangle that shares the corner (7, 0) with RingO only
RingP == <<<<7, 0>>, <<8, 0>>, <<7, 1>>>>
\* clockwise square away from RingB, not closed
RingE == <<<<6, 3>>, <<6, 4>>, <<7, 4>>, <<7, 3>>>>
\* counter-clockwise triangle that touches both RingB and RingE
RingY == <<<<4, 3>>, <<6, 3>>, <<5, 4>>, <<4, 3>>>>
\* a ring of no area: its signed sum is 0
RingZ == <<<<0, 6>>, <<2, 6>>, <<1, 6>>>>
\* rings of fewer than 4 coordinates once closed
RingD1 == <<<<1, 1>>>>
RingD2 == <<<<1, 1>>, <<2, 2>>>>
RingD3 == <<<<0, 6>>, <<1, 6>>, <<0, 6>>>>
\* a ring of no coordinates
RingD0 == <<>>

RingCatalog ==
    {RingB, RingH1, RingH2, RingX, RingO, RingP, RingE, RingY, RingZ,
     RingD0, RingD1, RingD2, RingD3}

RingArrays == UNION {[1..n -> RingCatalog] : n \in 0..MaxRings}

-----------------------------------------------------------------------------
(* arcgis2geojson on an object that holds rings only, loop iteration by loop *)
(* iteration                                                                 *)

Init ==
    /\ pc = "idle"
    /\ arcgis \in {[rings |-> rs] : rs \in RingArrays}
    /\ id_attr = None
    /\ outer_rings = <<>>
    /\ holes = <<>>
    /\ uncontained_holes = <<>>
    /\ geojson = None
    /\ arcgis0 = arcgis

\* convert reaches line 128 and _rings2geojson calls _get_outer_rings, which
\* does not return
CallRaises ==
    /\ pc = "idle"
    /\ DOMAIN arcgis = {"rings"}
    /\ LET r == GetOuterRings(arcgis["rings"])
       IN  /\ r.raised
           /\ arcgis' = Put(arcgis, "rings", r.rings)
    /\ pc' = "raised"
    /\ UNCHANGED <<id_attr, outer_rings, holes, uncontained_holes, geojson, arcgis0>>

\* convert reaches line 128 and _rings2geojson calls _get_outer_rings (line 187)
Call ==
    /\ pc = "idle"
    /\ DOMAIN arcgis = {"rings"}
    /\ LET r == GetOuterRings(arcgis["rings"])
       IN  /\ ~r.raised
           /\ arcgis' = Put(arcgis, "rings", r.rings)
           /\ outer_rings' = r.outer_rings
           /\ holes' = r.holes
    /\ uncontained_holes' = <<>>
    /\ pc' = "contain"
    /\ UNCHANGED <<id_attr, geojson, arcgis0>>

\* one iteration of the while loop of _get_uncontained_holes
ContainStep ==
    /\ pc = "contain"
    /\ holes # <<>>
    /\ LET s == ContainIteration(outer_rings, holes, uncontained_holes)
       IN  /\ outer_rings' = s.outer_rings
           /\ holes' = s.holes
           /\ uncontained_holes' = s.uncontained_holes
    /\ UNCHANGED <<pc, arcgis, id_attr, geojson, arcgis0>>

\* _get_uncontained_holes returns (line 271)
ContainReturn ==
    /\ pc = "contain"
    /\ holes = <<>>
    /\ pc' = "intersect"
    /\ UNCHANGED <<arcgis, id_attr, outer_rings, holes, uncontained_holes, geojson, arcgis0>>

\* one iteration of the while loop of _rings2geojson
IntersectStep ==
    /\ pc = "intersect"
    /\ uncontained_holes # <<>>
    /\ LET s == IntersectIteration(outer_rings, uncontained_holes)
       IN  /\ outer_rings' = s.outer_rings
           /\ uncontained_holes' = s.uncontained_holes
    /\ UNCHANGED <<pc, arcgis, id_attr, holes, geojson, arcgis0>>

\* _rings2geojson returns (line 212-215); no later rule of convert matches an
\* object that holds rings only, and convert returns the geometry
Return ==
    /\ pc = "intersect"
    /\ uncontained_holes = <<>>
    /\ geojson' = Assemble(outer_rings)
    /\ pc' = "done"
    /\ UNCHANGED <<arcgis, id_attr, outer_rings, holes, uncontained_holes, arcgis0>>

Next == CallRaises \/ Call \/ ContainStep \/ ContainReturn \/ IntersectStep \/ Return

Spec == Init /\ [][Next]_vars

-----------------------------------------------------------------------------
(* The type dispatcher: convert. A step of convert takes and gives              *)
(* [raised, arcgis, geojson]: whether an exception is on its way to the caller, *)
(* the object passed in as the call has left it, and the dict being built.      *)

\* if id_attr (line 162)
Truthy(ida) == ida # None /\ ida.v # ""

Merge(d, e) ==
    [k \in (DOMAIN d) \cup (DOMAIN e) |-> IF k \in DOMAIN e THEN e[k] ELSE d[k]]

RECURSIVE Convert(_, _)

\* line 102: the list comprehension over the features, from feature i on
RECURSIVE ConvertFeatures(_, _, _, _)
ConvertFeatures(features, i, ida, out) ==
    IF i > Len(features) THEN [raised |-> FALSE, features |-> features, out |-> out]
    ELSE LET r == Convert(features[i], ida)
             fs == [features EXCEPT ![i] = r.arcgis]
         IN  IF r.raised THEN [raised |-> TRUE, features |-> fs, out |-> out]
             ELSE ConvertFeatures(fs, i + 1, ida, Append(out, r.geojson))

\* line 100-102
RuleFeatures(s, ida) ==
    IF s.raised \/ ~("features" \in DOMAIN s.arcgis /\ s.arcgis["features"] # <<>>) THEN s
    ELSE LET r == ConvertFeatures(s.arcgis["features"], 1, ida, <<>>)
         IN  [raised |-> r.raised,
              arcgis |-> Put(s.arcgis, "features", r.features),
              geojson |-> Put(Put(s.geojson, "type", "FeatureCollection"), "features", r.out)]

\* line 104-113
RulePoint(s) ==
    IF \/ s.raised
       \/ ~("x" \in DOMAIN s.arcgis /\ IsNumber(s.arcgis["x"]))
       \/ ~("y" \in DOMAIN s.arcgis /\ IsNumber(s.arcgis["y"]))
    THEN s
    ELSE LET xy == <<s.arcgis["x"], s.arcgis["y"]>>
             coordinates == IF "z" \in DOMAIN s.arcgis /\ IsNumber(s.arcgis["z"])
                            THEN Append(xy, s.arcgis["z"]) ELSE xy
         IN  [s EXCEPT !.geojson = Put(Put(s.geojson, "type", "Point"),
                                       "coordinates", coordinates)]

\* line 115-117
RulePoints(s) ==
    IF s.raised \/ "points" \notin DOMAIN s.arcgis THEN s
    ELSE [s EXCEPT !.geojson = Put(Put(s.geojson, "type", "MultiPoint"),
                                   "coordinates", s.arcgis["points"])]

\* line 119-125
RulePaths(s) ==
    IF s.raised \/ "paths" \notin DOMAIN s.arcgis THEN s
    ELSE IF Len(s.arcgis["paths"]) = 1
    THEN [s EXCEPT !.geojson = Put(Put(s.geojson, "type", "LineString"),
                                   "coordinates", s.arcgis["paths"][1])]
    ELSE [s EXCEPT !.geojson = Put(Put(s.geojson, "type", "MultiLineString"),
                                   "coordinates", s.arcgis["paths"])]

\* RuleRings writing into the dict built so far, as the other rules do
RuleRingsInto(s) ==
    IF s.raised \/ "rings" \notin DOMAIN s.arcgis THEN s
    ELSE LET r == Rings2GeoJSON(s.arcgis["rings"])
         IN  [raised |-> r.raised,
              arcgis |-> Put(s.arcgis, "rings", r.rings),
              geojson |-> IF r.raised THEN s.geojson ELSE Merge(s.geojson, r.geojson)]

\* line 127-128: the dict built so far is replaced by what _rings2geojson returns
RuleRings(s) ==
    IF s.raised \/ "rings" \notin DOMAIN s.arcgis THEN s
    ELSE LET r == Rings2GeoJSON(s.arcgis["rings"])
         IN  [raised |-> r.raised,
              arcgis |-> Put(s.arcgis, "rings", r.rings),
              geojson |-> IF r.raised THEN s.geojson ELSE r.geojson]

\* line 130-149
RuleEnvelope(s) ==
    IF \/ s.raised
       \/ \E k \in {"xmin", "ymin", "xmax", "ymax"} :
             ~(k \in DOMAIN s.arcgis /\ IsNumber(s.arcgis[k]))
    THEN s
    ELSE LET a == s.arcgis
             box == <<<<a["xmax"], a["ymax"]>>, <<a["xmin"], a["ymax"]>>,
                      <<a["xmin"], a["ymin"]>>, <<a["xmax"], a["ymin"]>>,
                      <<a["xmax"], a["ymax"]>>>>
         IN  [s EXCEPT !.geojson = Put(Put(s.geojson, "type", "Polygon"),
                                       "coordinates", <<box>>)]

\* FirstIdKey without the test of the value's type
FirstPresentKey(attributes, keys, i) ==
    LET present == {j \in i..Len(keys) : keys[j] \in DOMAIN attributes}
    IN  IF present = {} THEN 0 ELSE CHOOSE j \in present : \A k \in present : j <= k

\* line 163-168: the first key, from key i on, that attributes holds with a number
\* or a string; 0 when there is none
RECURSIVE FirstIdKey(_, _, _)
FirstIdKey(attributes, keys, i) ==
    IF i > Len(keys) THEN 0
    ELSE IF keys[i] \in DOMAIN attributes /\ IsNumberOrStr(attributes[keys[i]]) THEN i
    ELSE FirstIdKey(attributes, keys, i + 1)

\* line 158-172
Properties(obj, gj, ida) ==
    IF "attributes" \in DOMAIN obj
    THEN LET attributes == obj["attributes"]
             keys == IF Truthy(ida) THEN <<ida.v, "OBJECTID", "FID">>
                     ELSE <<"OBJECTID", "FID">>
             i == FirstIdKey(attributes, keys, 1)
             withp == Put(gj, "properties", attributes)
         IN  IF i > 0 THEN Put(withp, "id", attributes[keys[i]]) ELSE withp
    ELSE Put(gj, "properties", None)

\* line 151-172: the geometry is converted with no id_attr
RuleFeature(s, ida) ==
    IF s.raised \/ ~("geometry" \in DOMAIN s.arcgis \/ "attributes" \in DOMAIN s.arcgis)
    THEN s
    ELSE LET typed == Put(s.geojson, "type", "Feature")
         IN  IF "geometry" \in DOMAIN s.arcgis
             THEN LET r == Convert(s.arcgis["geometry"], None)
                      a == Put(s.arcgis, "geometry", r.arcgis)
                  IN  IF r.raised THEN [raised |-> TRUE, arcgis |-> a, geojson |-> typed]
                      ELSE [raised |-> FALSE, arcgis |-> a,
                            geojson |-> Properties(a, Put(typed, "geometry", r.geojson), ida)]
             ELSE [s EXCEPT !.geojson = Properties(s.arcgis, Put(typed, "geometry", None), ida)]

\* line 174-175
NullGeometry(s) ==
    IF s.raised \/ ~("geometry" \in DOMAIN s.geojson /\ Falsy(s.geojson["geometry"])) THEN s
    ELSE [s EXCEPT !.geojson = Put(s.geojson, "geometry", None)]

\* line 96-177: the rules, each applied to what the rules before it built
Convert(obj, ida) ==
    NullGeometry(
     RuleFeature(
      RuleEnvelope(
       RuleRings(
        RulePaths(
         RulePoints(
          RulePoint(
           RuleFeatures([raised |-> FALSE, arcgis |-> obj, geojson |-> EmptyDict], ida)))))),
      ida))

-----------------------------------------------------------------------------
(* arcgis2geojson on an object that may satisfy several rules, as one step *)

PointParts ==
    {EmptyDict,
     [x |-> Num(1), y |-> Num(2)],
     [x |-> Num(1), y |-> Num(2), z |-> Num(3)],
     [x |-> Str("1"), y |-> Num(2)],
     [x |-> Num(1)]}

FeaturesParts ==
    {EmptyDict,
     [features |-> <<>>],
     [features |-> <<[attributes |-> [gid |-> Str("a"), OBJECTID |-> Num(1)],
                      geometry |-> [x |-> Num(1), y |-> Num(2)]],
                     [attributes |-> [FID |-> Num(2)],
                      geometry |-> [rings |-> <<RingH2>>]]>>]}

PointsParts == {EmptyDict, [points |-> <<<<0, 0>>, <<1, 1>>>>]}

PathsParts ==
    {EmptyDict,
     [paths |-> <<<<<<0, 0>>, <<1, 1>>>>>>],
     [paths |-> <<<<<<0, 0>>, <<1, 1>>>>, <<<<2, 2>>, <<3, 3>>>>>>]}

RingsParts ==
    {EmptyDict,
     [rings |-> <<RingB>>],
     [rings |-> <<RingB, RingX>>],
     [rings |-> <<RingB, RingE>>],
     [rings |-> <<RingH2, RingD0>>]}

EnvelopeParts ==
    {EmptyDict,
     [xmin |-> Num(0), ymin |-> Num(1), xmax |-> Num(2), ymax |-> Num(3)],
     [xmin |-> Num(0), ymin |-> Num(1), xmax |-> Num(2)],
     [xmin |-> Str("0"), ymin |-> Num(1), xmax |-> Num(2), ymax |-> Num(3)]}

GeometryParts ==
    {EmptyDict,
     [geometry |-> [x |-> Num(1), y |-> Num(2)]],
     [geometry |-> EmptyDict],
     [geometry |-> [rings |-> <<RingX>>]]}

AttributesParts ==
    {EmptyDict,
     [attributes |-> [OBJECTID |-> Num(7), FID |-> Num(8)]],
     [attributes |-> [gid |-> Other, OBJECTID |-> Other, FID |-> Str("f")]],
     [attributes |-> [gid |-> Str("g"), OBJECTID |-> Num(7)]],
     [attributes |-> [name |-> Str("n")]]}

InitConvert ==
    /\ pc = "idle"
    /\ \E f \in FeaturesParts, p \in PointParts, m \in PointsParts, l \in PathsParts,
          r \in RingsParts, e \in EnvelopeParts, g \in GeometryParts, a \in AttributesParts :
          arcgis = Merge(f, Merge(p, Merge(m, Merge(l, Merge(r, Merge(e, Merge(g, a)))))))
    /\ id_attr \in {None, Str("gid")}
    /\ outer_rings = <<>>
    /\ holes = <<>>
    /\ uncontained_holes = <<>>
    /\ geojson = None
    /\ arcgis0 = arcgis

\* line 182: convert returns
ConvertReturns ==
    /\ pc = "idle"
    /\ LET r == Convert(arcgis, id_attr)
       IN  /\ ~r.raised
           /\ arcgis' = r.arcgis
           /\ geojson' = r.geojson
    /\ pc' = "done"
    /\ UNCHANGED <<id_attr, outer_rings, holes, uncontained_holes, arcgis0>>

\* line 182: an exception leaves convert
ConvertRaises ==
    /\ pc = "idle"
    /\ LET r == Convert(arcgis, id_attr)
       IN  /\ r.raised
           /\ arcgis' = r.arcgis
    /\ pc' = "raised"
    /\ UNCHANGED <<id_attr, outer_rings, holes, uncontained_holes, geojson, arcgis0>>

NextConvert == ConvertReturns \/ ConvertRaises

SpecConvert == InitConvert /\ [][NextConvert]_vars

-----------------------------------------------------------------------------
(* What the properties speak of *)

\* the rings array the caller passed
rings0 == arcgis0["rings"]

\* the groups a returned geometry holds
OutGroups(g) == IF g.type = "Polygon" THEN <<g.coordinates>> ELSE g.coordinates

RECURSIVE Flatten(_)
Flatten(groups) == IF groups = <<>> THEN <<>> ELSE Head(groups) \o Flatten(Tail(groups))

BagOfSeq(s) ==
    [val \in {s[i] : i \in DOMAIN s} |-> Cardinality({i \in DOMAIN s : s[i] = val})]

\* the rings array without its i-th ring
Without(rs, i) == SubSeq(rs, 1, i - 1) \o SubSeq(rs, i + 1, Len(rs))

\* a ring of the input that has fewer than 4 coordinates after closing
FewerThan4(ring) == ring = <<>> \/ Len(CloseRing(ring)) < 4

\* the closed rings of the input that have 4 coordinates or more, in input order
RECURSIVE ClosedProper(_)
ClosedProper(rs) ==
    IF rs = <<>> THEN <<>>
    ELSE IF FewerThan4(Head(rs)) THEN ClosedProper(Tail(rs))
    ELSE <<CloseRing(Head(rs))>> \o ClosedProper(Tail(rs))

\* how many exterior candidates the input holds
NumExteriors(rs) == Cardinality({i \in DOMAIN ClosedProper(rs) : IsOuter(ClosedProper(rs)[i])})

\* the ray from p to the right crosses the edge a-b
CrossesRay(p, a, b) ==
    /\ (a[2] > p[2]) # (b[2] > p[2])
    /\ IF b[2] > a[2]
       THEN (p[1] - a[1]) * (b[2] - a[2]) < (p[2] - a[2]) * (b[1] - a[1])
       ELSE (p[1] - a[1]) * (b[2] - a[2]) > (p[2] - a[2]) * (b[1] - a[1])

\* p lies in the area the closed ring bounds
PointInside(p, ring) ==
    Cardinality({i \in 1..(Len(ring) - 1) : CrossesRay(p, ring[i], ring[i + 1])}) % 2 = 1

\* the ring hole lies strictly inside the ring ext, the boundaries apart
StrictlyInside(hole, ext) == ~LineIntersects(ext, hole) /\ PointInside(hole[1], ext)

\* one exterior candidate and two hole candidates, both strictly inside it
NestedInput(rs) ==
    /\ Len(rs) = 3
    /\ \A i \in 1..3 : ~FewerThan4(rs[i])
    /\ \E e \in 1..3 :
          /\ IsOuter(CloseRing(rs[e]))
          /\ \A h \in (1..3) \ {e} :
                /\ ~IsOuter(CloseRing(rs[h]))
                /\ StrictlyInside(CloseRing(rs[h]), CloseRing(rs[e]))

\* the same ring whichever way round it is listed
Canon(ring) == CHOOSE s \in {ring, Reverse(ring)} : TRUE

CanonAll(s) == [i \in DOMAIN s |-> Canon(s[i])]

\* the exteriors of the groups the hole at the top of the stack intersects
Hit == {x \in 1..Len(outer_rings) :
            LineIntersects(outer_rings[x][1], Last(uncontained_holes))}

SetMax(S) == CHOOSE x \in S : \A y \in S : y <= x

-----------------------------------------------------------------------------
(* C1 *)

\* C1: one exterior and two holes strictly inside it, the boundaries apart, give a
\* Polygon whose coordinates hold 3 rings, the exterior and then both holes.
C1_NestedHolesOnePolygon ==
    (pc = "done" /\ NestedInput(rings0)) =>
        /\ geojson.type = "Polygon"
        /\ Len(geojson.coordinates) = 3

\* What the code returns for that input: never one Polygon, because no hole is
\* attached to the exterior; each hole starts a group or joins another hole's.
C1_NestedHolesSplit ==
    (pc = "done" /\ NestedInput(rings0)) =>
        /\ geojson.type = "MultiPolygon"
        /\ Len(geojson.coordinates) >= 2
        /\ Len(geojson.coordinates[1]) = 1

C1_NestedReturned == pc = "done" /\ NestedInput(rings0)

(* C2 *)

\* C2: in the output every exterior (index 0 of a group, promoted orphans too) has
\* signed sum <= 0 and every hole (index >= 1) has signed sum >= 0.
C2_Orientation ==
    pc = "done" =>
        \A x \in DOMAIN OutGroups(geojson) :
            LET group == OutGroups(geojson)[x]
            IN  /\ SignedSum(group[1]) <= 0
                /\ \A k \in 2..Len(group) : SignedSum(group[k]) >= 0

\* an output with an exterior candidate's group that holds a hole, and a group
\* made by orphan promotion
C2_Witness ==
    /\ pc = "done"
    /\ Len(outer_rings) > NumExteriors(rings0)
    /\ NumExteriors(rings0) > 0
    /\ \E x \in 1..NumExteriors(rings0) : Len(outer_rings[x]) > 1

(* C3 *)

\* C3: a ring of fewer than 4 coordinates after closing is dropped without an
\* error: no output ring is that short, and the output is the one the other rings
\* alone give.
C3_DegenerateDropped ==
    \A i \in DOMAIN rings0 :
        FewerThan4(rings0[i]) =>
            /\ pc # "raised"
            /\ pc = "done" =>
                  /\ \A j \in DOMAIN Flatten(OutGroups(geojson)) :
                        Len(Flatten(OutGroups(geojson))[j]) >= 4
                  /\ ~Rings2GeoJSON(Without(rings0, i)).raised
                  /\ geojson = Rings2GeoJSON(Without(rings0, i)).geojson

\* The part of C3 the code keeps: a ring of 1 to 3 coordinates after closing is
\* dropped and the output is the one the other rings alone give.
C3_ShortRingDropped ==
    \A i \in DOMAIN rings0 :
        (rings0[i] # <<>> /\ FewerThan4(rings0[i]) /\ pc = "done") =>
            /\ \A j \in DOMAIN Flatten(OutGroups(geojson)) :
                  Len(Flatten(OutGroups(geojson))[j]) >= 4
            /\ geojson = Rings2GeoJSON(Without(rings0, i)).geojson

(* C4 *)

\* C4: the ring classifier has no error outcome, a ring of no coordinates
\* included: the call never raises.
C4_ClassifierNeverRaises == pc # "raised"

(* C5 *)

\* C5: after the call returns, the caller's object is what it was before the call.
C5_InputUnchanged == pc = "done" => arcgis = arcgis0

(* C6 *)

\* C6: in the intersection pass the hole goes to the last-created group whose
\* exterior intersects it, groups made by orphan promotion included, and no other
\* group changes; so it is promoted only when no exterior intersects it.
C6_LastIntersectingGroup ==
    [][(pc = "intersect" /\ uncontained_holes # <<>> /\ Hit # {}) =>
          /\ Len(outer_rings') = Len(outer_rings)
          /\ outer_rings'[SetMax(Hit)] =
                Append(outer_rings[SetMax(Hit)], Last(uncontained_holes))
          /\ \A x \in 1..Len(outer_rings) :
                x # SetMax(Hit) => outer_rings'[x] = outer_rings[x]]_vars

\* a hole was appended to a group made by orphan promotion
C6_Witness ==
    /\ pc \in {"intersect", "done"}
    /\ \E x \in (NumExteriors(rings0) + 1)..Len(outer_rings) : Len(outer_rings[x]) > 1

(* C7 *)

\* the holes promoted so far are the exteriors of the groups that follow the
\* exterior candidates' groups
Promoted(groups) == {x \in (NumExteriors(rings0) + 1)..Len(groups) : TRUE}

\* the input rings a promoted group's exterior comes from
SourceOf(ext) ==
    {i \in DOMAIN rings0 : ~FewerThan4(rings0[i]) /\ CloseRing(rings0[i]) = ext}

\* C7 as stated: a hole that matches no group raises no error and becomes a group
\* of its own, in input vertex order; the output holds one polygon more than
\* without that hole and is a MultiPolygon.
C7_OrphanAddsMultiPolygonEntry ==
    pc = "done" =>
        \A x \in Promoted(outer_rings) :
            /\ SourceOf(outer_rings[x][1]) # {}
            /\ geojson.type = "MultiPolygon"
            /\ \A i \in SourceOf(outer_rings[x][1]) :
                  Len(OutGroups(geojson)) =
                     Len(OutGroups(Rings2GeoJSON(Without(rings0, i)).geojson)) + 1

\* C7, amended: a hole that matches no group raises no error and becomes a new
\* singleton group after all groups existing at that moment, the closed ring in
\* input vertex order, so that step adds exactly one group; the groups are
\* returned as they are, a MultiPolygon unless the promoted hole is the only group.
C7_OrphanPromotion ==
    [][/\ (pc = "intersect" /\ uncontained_holes # <<>> /\ Hit = {}) =>
             /\ pc' = "intersect"
             /\ Len(outer_rings') = Len(outer_rings) + 1
             /\ SubSeq(outer_rings', 1, Len(outer_rings)) = outer_rings
             /\ Len(Last(outer_rings')) = 1
             /\ SourceOf(Last(outer_rings')[1]) # {}
       /\ pc' = "done" =>
             /\ OutGroups(geojson') = outer_rings
             /\ (geojson'.type = "Polygon") = (Len(outer_rings) = 1)]_vars

\* a hole was promoted after another group existed
C7_Witness ==
    /\ pc = "done"
    /\ Len(outer_rings) > NumExteriors(rings0)
    /\ Len(outer_rings) >= 2

(* C8 *)

\* C8: the result is a Polygon holding the one group exactly when one group exists
\* at the end of hole assignment, and a MultiPolygon holding the groups in
\* creation order in every other case, zero groups included; two exterior
\* candidates and no hole give their two single-ring entries in input order.
C8_Assembler ==
    pc = "done" =>
        /\ Len(outer_rings) = 1 =>
              geojson = [type |-> "Polygon", coordinates |-> outer_rings[1]]
        /\ Len(outer_rings) # 1 =>
              geojson = [type |-> "MultiPolygon", coordinates |-> outer_rings]
        /\ (Len(ClosedProper(rings0)) = 1 /\ NumExteriors(rings0) = 1) =>
              /\ geojson.type = "Polygon"
              /\ geojson.coordinates = <<Reverse(ClosedProper(rings0)[1])>>
        /\ (Len(ClosedProper(rings0)) = 2 /\ NumExteriors(rings0) = 2) =>
              /\ geojson.type = "MultiPolygon"
              /\ geojson.coordinates = <<<<Reverse(ClosedProper(rings0)[1])>>,
                                         <<Reverse(ClosedProper(rings0)[2])>>>>

\* two exterior candidates and no hole were converted
C8_Witness ==
    /\ pc = "done"
    /\ Len(ClosedProper(rings0)) = 2
    /\ NumExteriors(rings0) = 2
    /\ geojson.type = "MultiPolygon"

(* C9 *)

\* C9: every input ring of 4 coordinates or more after closing is in the output
\* exactly once, as the exterior or as a hole of one group, and the output holds
\* no other ring.
C9_ExclusiveOwnership ==
    pc = "done" =>
        /\ BagOfSeq(CanonAll(Flatten(OutGroups(geojson)))) =
              BagOfSeq(CanonAll(ClosedProper(rings0)))
        /\ Len(Flatten(OutGroups(geojson))) = Len(ClosedProper(rings0))

\* an input with the same ring twice was converted, and a hole was attached
C9_Witness ==
    /\ pc = "done"
    /\ \E i, j \in DOMAIN ClosedProper(rings0) :
          i # j /\ ClosedProper(rings0)[i] = ClosedProper(rings0)[j]
    /\ \E x \in DOMAIN outer_rings : Len(outer_rings[x]) > 1

(* C10 *)

\* the rules of convert an object satisfies, by their place in the order
\* features, x and y, points, paths, rings, envelope, geometry or attributes
Matching(obj) ==
    {n \in 1..7 :
        \/ n = 1 /\ "features" \in DOMAIN obj /\ obj["features"] # <<>>
        \/ n = 2 /\ \A k \in {"x", "y"} : k \in DOMAIN obj /\ IsNumber(obj[k])
        \/ n = 3 /\ "points" \in DOMAIN obj
        \/ n = 4 /\ "paths" \in DOMAIN obj
        \/ n = 5 /\ "rings" \in DOMAIN obj
        \/ n = 6 /\ \A k \in {"xmin", "ymin", "xmax", "ymax"} :
                       k \in DOMAIN obj /\ IsNumber(obj[k])
        \/ n = 7 /\ ("geometry" \in DOMAIN obj \/ "attributes" \in DOMAIN obj)}

\* the types rule n gives
TypesOf(n, obj) ==
    CASE n = 1 -> {"FeatureCollection"}
      [] n = 2 -> {"Point"}
      [] n = 3 -> {"MultiPoint"}
      [] n = 4 -> IF Len(obj["paths"]) = 1 THEN {"LineString"} ELSE {"MultiLineString"}
      [] n = 5 -> {Rings2GeoJSON(obj["rings"]).geojson["type"]}
      [] n = 6 -> {"Polygon"}
      [] n = 7 -> {"Feature"}

\* the keys rule n writes
KeysOf(n) ==
    CASE n = 1 -> {"type", "features"}
      [] n \in 2..6 -> {"type", "coordinates"}
      [] n = 7 -> {"type", "geometry", "properties", "id"}

\* C10: the rules are applied in the listed order and are not exclusive, so the
\* output's type is that of the last rule that matches; a matching rings rule
\* replaces the object built so far, so no key written by an earlier rule alone
\* (features) is in the result.
C10_LastRuleWins ==
    (pc = "done" /\ Matching(arcgis0) # {}) =>
        /\ geojson["type"] \in TypesOf(SetMax(Matching(arcgis0)), arcgis0)
        /\ 5 \in Matching(arcgis0) =>
              /\ DOMAIN geojson \subseteq
                    UNION {KeysOf(n) : n \in {m \in Matching(arcgis0) : m >= 5}}
              /\ "features" \notin DOMAIN geojson

\* an object with features and rings, and no later rule, was converted
C10_Witness ==
    /\ pc = "done"
    /\ {1, 5} \subseteq Matching(arcgis0)
    /\ SetMax(Matching(arcgis0)) = 5
    /\ Cardinality(Matching(arcgis0)) >= 4

(* C11 *)

\* the keys tried for the id, in order: the caller's id_attr when given, then
\* OBJECTID, then FID
IdKeys(ida) == IF Truthy(ida) THEN <<ida.v, "OBJECTID", "FID">> ELSE <<"OBJECTID", "FID">>

\* the places in IdKeys of the keys that attributes holds with a number or a string
Qualifying(attributes, ida) ==
    {j \in DOMAIN IdKeys(ida) :
        /\ IdKeys(ida)[j] \in DOMAIN attributes
        /\ attributes[IdKeys(ida)[j]].py \in {"num", "str"}}

\* the Feature gj made from an object with these attributes has the id they give
\* under ida, or no id when no key qualifies
IdAsGiven(gj, attributes, ida) ==
    /\ gj["type"] = "Feature"
    /\ gj["properties"] = attributes
    /\ IF Qualifying(attributes, ida) = {} THEN "id" \notin DOMAIN gj
       ELSE /\ "id" \in DOMAIN gj
            /\ gj["id"] = attributes[IdKeys(ida)[CHOOSE j \in Qualifying(attributes, ida) :
                                         \A k \in Qualifying(attributes, ida) : j <= k]]

\* C11: the id of a Feature is the value of the first of id_attr (when given),
\* OBJECTID, FID that attributes holds with a number or a string; with no such key
\* there is no id and no error; id_attr applies to every feature of a
\* FeatureCollection.
C11_FirstIdAttribute ==
    /\ pc = "raised" => ("rings" \in DOMAIN arcgis0 /\ RingD0 \in Range(arcgis0["rings"]))
    /\ (pc = "done" /\ "attributes" \in DOMAIN arcgis0) =>
          IdAsGiven(geojson, arcgis0["attributes"], id_attr)
    /\ (pc = "done" /\ "features" \in DOMAIN geojson) =>
          \A i \in DOMAIN arcgis0["features"] :
              "attributes" \in DOMAIN arcgis0["features"][i] =>
                  IdAsGiven(geojson["features"][i],
                            arcgis0["features"][i]["attributes"], id_attr)

\* a Feature took its id from FID after the caller's key and OBJECTID were found
\* with values of another kind
C11_Witness ==
    /\ pc = "done"
    /\ "attributes" \in DOMAIN arcgis0
    /\ Truthy(id_attr)
    /\ {id_attr.v, "OBJECTID", "FID"} \subseteq DOMAIN arcgis0["attributes"]
    /\ arcgis0["attributes"][id_attr.v].py = "list"
    /\ arcgis0["attributes"]["OBJECTID"].py = "list"
    /\ "id" \in DOMAIN geojson
    /\ "features" \in DOMAIN geojson

(* C12 *)

\* how many rings the groups hold
RingCount(groups) == Len(Flatten(groups))

\* bounds the steps the call has left: the rings still to classify, the holes on
\* either stack, and the returns still to come
Variant ==
    CASE pc = "idle" -> 3 + 2 * Len(arcgis["rings"])
      [] pc = "contain" -> 2 + 2 * Len(holes) + Len(uncontained_holes)
      [] pc = "intersect" -> 1 + Len(uncontained_holes)
      [] OTHER -> 0

\* the call has ended, or it can take a step
EndedOrRunning == pc \in {"done", "raised"} \/ ENABLED Next

\* C12: the ring pipeline terminates. An iteration of the containment loop takes
\* one hole off its stack and adds none; an iteration of the intersection loop
\* takes one uncontained hole off its stack, adds none and puts that one ring into
\* the groups; every step brings the end nearer, and the call stops only when
\* _rings2geojson has returned (or _get_outer_rings has raised).
C12_Terminates ==
    /\ pc = "idle" /\ DOMAIN arcgis = {"rings"}
    /\ [][/\ Variant' < Variant
          /\ Variant' >= 0
          /\ EndedOrRunning'
          /\ (pc = "contain" /\ pc' = "contain") =>
                /\ Len(holes') = Len(holes) - 1
                /\ Len(uncontained_holes') + RingCount(outer_rings')
                      = Len(uncontained_holes) + RingCount(outer_rings) + 1
          /\ (pc = "intersect" /\ pc' = "intersect") =>
                /\ holes' = <<>>
                /\ Len(uncontained_holes') = Len(uncontained_holes) - 1
                /\ RingCount(outer_rings') = RingCount(outer_rings) + 1
                /\ Len(outer_rings') \in {Len(outer_rings), Len(outer_rings) + 1}]_vars

\* a call that ran both loops more than once, and promoted a hole, has returned
C12_Witness ==
    /\ pc = "done"
    /\ Len(ClosedProper(rings0)) - NumExteriors(rings0) >= 2
    /\ Len(outer_rings) > NumExteriors(rings0)

(* C13 *)

\* the hole candidates of the input, closed, in input order
HoleCandidates(rs) == SelectSeq(ClosedProper(rs), LAMBDA r : ~IsOuter(r))

\* the exterior candidates of the input, closed, in input order
ExteriorCandidates(rs) == SelectSeq(ClosedProper(rs), LAMBDA r : IsOuter(r))

\* the stack of holes the containment pass is called with
HolesAtCall == [i \in DOMAIN HoleCandidates(rings0) |-> Reverse(HoleCandidates(rings0)[i])]

\* the groups the containment pass is called with
GroupsAtCall ==
    [i \in DOMAIN ExteriorCandidates(rings0) |-> <<Reverse(ExteriorCandidates(rings0)[i])>>]

RECURSIVE InOrder(_, _)
InOrder(S, hs) ==
    IF S = {} THEN <<>>
    ELSE LET i == CHOOSE j \in S : \A l \in S : j <= l
         IN  <<hs[i]>> \o InOrder(S \ {i}, hs)

SetMin(S) == CHOOSE j \in S : \A l \in S : j <= l

\* the holes that f sends to group x
SentTo(f, x) == {i \in DOMAIN f : f[i] = x}

\* f tells, for each hole the intersection pass has processed, the group it went
\* to: a group of an exterior candidate holds that exterior and then its holes in
\* input order; a later group holds the earliest of its holes, promoted, and then
\* the others in input order; and the later groups are in the input order of the
\* holes they were promoted from
GroupsFollow(f) ==
    /\ \A x \in DOMAIN outer_rings :
          IF x <= Len(GroupsAtCall)
          THEN outer_rings[x] = GroupsAtCall[x] \o InOrder(SentTo(f, x), HolesAtCall)
          ELSE /\ SentTo(f, x) # {}
               /\ outer_rings[x] =
                     <<Reverse(HolesAtCall[SetMin(SentTo(f, x))])>>
                        \o InOrder(SentTo(f, x) \ {SetMin(SentTo(f, x))}, HolesAtCall)
    /\ \A x, y \in DOMAIN outer_rings :
          (Len(GroupsAtCall) < x /\ x < y) => SetMin(SentTo(f, x)) < SetMin(SentTo(f, y))

\* how many holes the intersection pass has processed
Processed == Len(HolesAtCall) - Len(uncontained_holes)

\* C14: the intersection pass processes the holes in their input order: the
\* holes still on its stack are the last of the input, the next one on top.
\* Hence the holes appended to a group are in input order in it, and the
\* promoted groups follow every exterior candidate's group, in the input order
\* of their holes, in the geometry returned.
C14_InputOrder ==
    pc \in {"intersect", "done"} =>
        /\ Processed \in 0..Len(HolesAtCall)
        /\ uncontained_holes
              = Reverse(SubSeq(HolesAtCall, Processed + 1, Len(HolesAtCall)))
        /\ Len(outer_rings) >= Len(GroupsAtCall)
        /\ \E f \in [1..Processed -> DOMAIN outer_rings] : GroupsFollow(f)
        /\ pc = "done" => (Processed = Len(HolesAtCall) /\ OutGroups(geojson) = outer_rings)

\* the pass has processed two different holes or more, has appended one to a
\* group and has promoted one, and the geometry is returned
C14_Witness ==
    /\ pc = "done"
    /\ \E i, j \in DOMAIN HolesAtCall : HolesAtCall[i] # HolesAtCall[j]
    /\ \E x \in DOMAIN outer_rings : Len(outer_rings[x]) > 1
    /\ Len(outer_rings) > Len(GroupsAtCall)

====
